---- MODULE Spec2Model ----
(***************************************************************************)
(* Model of main.py of invest-lord-bot: a Telegram bot that reads a        *)
(* portfolio ledger from a Google spreadsheet, normalises the rows         *)
(* (sheet_to_dataframe), aggregates them (analyze_portfolio), answers      *)
(* three commands (cmd_portfolio, cmd_analysis, cmd_rows) and re-runs the  *)
(* pipeline in a background loop (periodic_task).                          *)
(*                                                                         *)
(* Numbers are exact integers and percentages exact fractions; binary      *)
(* floating point rounding is not modelled.  Of the ledger's columns only  *)
(* account, type, qty and avg_price are modelled; symbol, currency and     *)
(* notes are carried through by the code without entering any computation  *)
(* and every modelled table is taken to carry the symbol column.           *)
(***************************************************************************)
EXTENDS Integers, Sequences, FiniteSets, TLC

VARIABLES
    source,     \* the external spreadsheet as it is now
    hpc,        \* per handler invocation slot: "idle", "fetched", "done"
    hcmd,       \* the command the slot is serving
    hfetch,     \* the slot's local result of the try block (its own df)
    hsnap,      \* history: the spreadsheet as it was at the slot's fetch
    hfetches,   \* history: fetch attempts made by the invocation
    hsent,      \* messages the invocation has sent with message.answer
    hraised,    \* whether the invocation ended in an uncaught exception
    ppc,        \* periodic_task: "fetching" or "waiting"
    plog,       \* the last record periodic_task has logged
    psnap,      \* history: the spreadsheet as it was at the last cycle
    rows,       \* pipeline run: the raw rows handed to the normaliser
    stage,      \* pipeline run: "raw", "normalized", "analyzed", "listed"
    df,         \* pipeline run: the normalised frame
    analysis,   \* pipeline run: what analyze_portfolio(df) produced
    listing     \* pipeline run: what cmd_portfolio made of the same frame

botVars  == <<source, hpc, hcmd, hfetch, hsnap, hfetches, hsent, hraised,
              ppc, plog, psnap>>
pipeVars == <<rows, stage, df, analysis, listing>>
vars     == <<source, hpc, hcmd, hfetch, hsnap, hfetches, hsent, hraised,
              ppc, plog, psnap, rows, stage, df, analysis, listing>>

-----------------------------------------------------------------------------
(* Cells.  A cell of a raw row is a number, a text, or absent (the row has   *)
(* no such key).  Inside a frame a missing value is NaN.                     *)

Num(n)  == [k |-> "num",    n |-> n, s |-> ""]
Str(s)  == [k |-> "str",    n |-> 0, s |-> s]
Absent  == [k |-> "absent", n |-> 0, s |-> ""]
NaN     == [k |-> "nan",    n |-> 0, s |-> ""]

Cols == {"account", "type", "qty", "avg_price"}

MaxRows == 2

\* the cells the pipeline runs draw from: qty carries every kind of cell;
\* avg_price, coerced by the same loop, a number or nothing.
AccountCells == {Str("A"), Str("B"), Absent}
TypeCells    == {Str("stock"), Str("bond"), Absent}
QtyCells     == {Num(-2), Num(2), Str("abc"), Absent}
PriceCells   == {Num(3), Absent}

RawRow == [account : AccountCells, type : TypeCells,
           qty : QtyCells, avg_price : PriceCells]

RawTables == UNION {[1..n -> RawRow] : n \in 0..MaxRows}

RECURSIVE SumSeq(_)
SumSeq(s) == IF Len(s) = 0 THEN 0 ELSE s[1] + SumSeq(Tail(s))

NoMap == [x \in {} |-> 0]

-----------------------------------------------------------------------------
(* Record Normalizer                                                         *)

\* pd.DataFrame(rows): the columns are the union of the rows' keys and a
\* row lacking a key of another row holds NaN there.
DataFrame(rs) ==
    LET columns == {c \in Cols : \E i \in 1..Len(rs) : rs[i][c].k # "absent"}
    IN  [columns |-> columns,
         recs    |-> [i \in 1..Len(rs) |->
                        [c \in Cols |->
                            IF rs[i][c].k # "absent" THEN rs[i][c]
                            ELSE IF c \in columns THEN NaN ELSE Absent]]]

\* df.empty: no rows (every table carries the symbol column).
Empty(d) == Len(d.recs) = 0

\* pd.to_numeric(..., errors="coerce"): a number stays, anything else is NaN.
to_numeric(c) == IF c.k = "num" THEN c ELSE NaN

\* .fillna(0)
fillna0(c) == IF c.k = "nan" THEN Num(0) ELSE c

\* the body of sheet_to_dataframe from pd.DataFrame(rows) on.
normalize(rs) ==
    LET d == DataFrame(rs)
    IN  IF Empty(d) THEN d
        ELSE [columns |-> d.columns,
              recs    |-> [i \in 1..Len(d.recs) |->
                             [c \in Cols |->
                                 IF c \in {"qty", "avg_price"} /\ c \in d.columns
                                 THEN fillna0(to_numeric(d.recs[i][c]))
                                 ELSE d.recs[i][c]]]]

-----------------------------------------------------------------------------
(* Aggregation Engine                                                        *)

Frac(num, den) == [num |-> num, den |-> den]

PctNoGuard(v, total) == Frac(100 * v, total)

\* (float(v)/total*100 if total else 0); a fraction of denominator 0 stands
\* for the ZeroDivisionError the division would raise.
Pct(v, total) == IF total # 0 THEN Frac(100 * v, total) ELSE Frac(0, 1)

\* the keys of df.groupby(col): NaN keys are dropped (dropna=True).
GroupKeys(d, col) ==
    {d.recs[i][col] : i \in {j \in 1..Len(d.recs) : d.recs[j][col].k # "nan"}}

\* df.groupby(col)["value"].sum() for one key.
GroupSum(d, vals, col, key) ==
    SumSeq([i \in 1..Len(d.recs) |->
               IF d.recs[i][col] = key THEN vals[i] ELSE 0])

Failure(e) ==
    [ok |-> FALSE, err |-> e, total |-> 0,
     keys |-> {}, rows |-> <<>>,
     by_account |-> NoMap, by_account_pct |-> NoMap,
     by_type |-> NoMap, by_type_pct |-> NoMap]

analyze_portfolio(d) ==
    IF Empty(d)
    THEN [ok |-> TRUE, err |-> "", total |-> 0,
          keys |-> {"total", "by_account", "by_type", "rows"}, rows |-> <<>>,
          by_account |-> NoMap, by_account_pct |-> NoMap,
          by_type |-> NoMap, by_type_pct |-> NoMap]
    ELSE IF "qty" \notin d.columns THEN Failure("KeyError: qty")
    ELSE IF "avg_price" \notin d.columns THEN Failure("KeyError: avg_price")
    ELSE
    LET value == [i \in 1..Len(d.recs) |->
                     fillna0(d.recs[i].qty).n * fillna0(d.recs[i].avg_price).n]
        total == SumSeq(value)
    IN  IF "account" \notin d.columns THEN Failure("KeyError: account")
        ELSE IF "type" \notin d.columns THEN Failure("KeyError: type")
        ELSE
        LET by_account == [key \in GroupKeys(d, "account") |->
                              GroupSum(d, value, "account", key)]
            by_type    == [key \in GroupKeys(d, "type") |->
                              GroupSum(d, value, "type", key)]
            by_account_pct == [key \in DOMAIN by_account |->
                                  Pct(by_account[key], total)]
            by_type_pct    == [key \in DOMAIN by_type |->
                                  Pct(by_type[key], total)]
        IN  IF \/ \E key \in DOMAIN by_account_pct : by_account_pct[key].den = 0
               \/ \E key \in DOMAIN by_type_pct : by_type_pct[key].den = 0
            THEN Failure("ZeroDivisionError")
            ELSE [ok |-> TRUE, err |-> "", total |-> total,
                  keys |-> {"total", "by_account", "by_account_pct",
                            "by_type", "by_type_pct", "rows"},
                  rows |-> [i \in 1..Len(d.recs) |->
                               [rec |-> d.recs[i], value |-> value[i]]],
                  by_account |-> by_account, by_account_pct |-> by_account_pct,
                  by_type |-> by_type, by_type_pct |-> by_type_pct]

-----------------------------------------------------------------------------
(* The external source                                                       *)

Sheet(t)    == [readable |-> TRUE,  records |-> t]
BrokenSheet == [readable |-> FALSE, records |-> <<>>]

Row(a, t, q, p) == [account |-> a, type |-> t, qty |-> q, avg_price |-> p]

TableEmpty   == <<>>
TableOne     == <<Row(Str("A"), Str("stock"), Num(2), Num(3))>>
TableTwo     == <<Row(Str("A"), Str("stock"), Num(2), Num(3)),
                  Row(Str("B"), Str("bond"), Num(-2), Num(3))>>
TableText    == <<Row(Str("A"), Str("stock"), Str("abc"), Num(3))>>
TableNoQty   == <<Row(Str("A"), Str("stock"), Absent, Num(3))>>

\* a spreadsheet: whether it can be opened, whether it has a worksheet named
\* EXPECTED_SHEET_NAME, that worksheet and the first worksheet.
Book(t) == [reachable |-> TRUE, named |-> TRUE,
            portfolio |-> Sheet(t), sheet1 |-> Sheet(TableEmpty)]

Unreachable == [reachable |-> FALSE, named |-> TRUE,
                portfolio |-> Sheet(TableEmpty), sheet1 |-> Sheet(TableEmpty)]

Unnamed     == [reachable |-> TRUE, named |-> FALSE,
                portfolio |-> Sheet(TableEmpty), sheet1 |-> Sheet(TableOne)]

Unreadable  == [reachable |-> TRUE, named |-> TRUE,
                portfolio |-> BrokenSheet, sheet1 |-> Sheet(TableEmpty)]

Sources == {Book(TableEmpty), Book(TableOne), Book(TableTwo), Book(TableText),
            Book(TableNoQty), Unreachable, Unnamed, Unreadable}

EmptyDf == [columns |-> {}, recs |-> <<>>]

Fetched(d)    == [ok |-> TRUE,  err |-> "", df |-> d]
FetchError(e) == [ok |-> FALSE, err |-> e,  df |-> EmptyDf]

\* connect_gsheet: raises when the spreadsheet cannot be opened.
connect_gsheet(src) == [ok |-> src.reachable, err |-> "ConnectError", sh |-> src]

\* sheet_to_dataframe: the named worksheet, else the first one; reading the
\* records may raise.
sheet_to_dataframe(sh) ==
    LET worksheet == IF sh.named THEN sh.portfolio ELSE sh.sheet1
    IN  IF ~worksheet.readable THEN FetchError("ReadError")
        ELSE Fetched(normalize(worksheet.records))

\* the body of the try block shared by the handlers and the loop.
TryFetch(src) ==
    LET c == connect_gsheet(src)
    IN  IF ~c.ok THEN FetchError(c.err) ELSE sheet_to_dataframe(c.sh)

-----------------------------------------------------------------------------
(* Query Handlers.  Each maps the outcome of its try block to the messages   *)
(* it sends and to whether an exception leaves the handler.                  *)

Msg(kind, err, total, lines, a) ==
    [kind |-> kind, err |-> err, total |-> total, lines |-> lines,
     by_account |-> a.by_account, by_account_pct |-> a.by_account_pct,
     by_type |-> a.by_type, by_type_pct |-> a.by_type_pct]

Plain(kind) == Msg(kind, "", 0, <<>>, Failure(""))

\* "Ошибка доступа к Google Sheets: " + str(e)
ErrorMsg(e) == Msg("source_error", e, 0, <<>>, Failure(""))

Replied(m) == [sent |-> <<m>>, raised |-> FALSE, exc |-> ""]
Raised(e)  == [sent |-> <<>>,  raised |-> TRUE,  exc |-> e]

\* row.get(col, 0) / r.get(col, 0): the default only when the frame has no
\* such column.
RowGet(d, rec, col) == IF col \in d.columns THEN rec[col] ELSE Num(0)

\* float(qty) * float(avg) of one row.
RowValue(d, rec) == RowGet(d, rec, "qty").n * RowGet(d, rec, "avg_price").n

\* total = 0.0; for each row: total += value
RunningTotal(vals) == SumSeq(vals)

PreviewLimit == 10

cmd_portfolio(f) ==
    IF ~f.ok THEN Replied(ErrorMsg(f.err))
    ELSE IF Empty(f.df) THEN Replied(Plain("empty_listing"))
    ELSE LET vals == [i \in 1..Len(f.df.recs) |-> RowValue(f.df, f.df.recs[i])]
         IN  Replied(Msg("listing", "", RunningTotal(vals), vals, Failure("")))

cmd_analysis_noexcept(f) ==
    IF ~f.ok THEN Raised(f.err)
    ELSE LET a == analyze_portfolio(f.df)
         IN  IF ~a.ok THEN Raised(a.err)
             ELSE IF a.total = 0 THEN Replied(Plain("empty_or_zero"))
             ELSE Replied(Msg("summary", "", a.total, <<>>, a))

cmd_analysis(f) ==
    IF ~f.ok THEN Replied(ErrorMsg(f.err))
    ELSE LET a == analyze_portfolio(f.df)
         IN  IF ~a.ok THEN Raised(a.err)
             ELSE IF a.total = 0 THEN Replied(Plain("empty_or_zero"))
             ELSE Replied(Msg("summary", "", a.total, <<>>, a))

cmd_rows_nocheck(f) ==
    IF ~f.ok \/ Empty(f.df) THEN Replied(ErrorMsg(f.err))
    ELSE LET n    == IF Len(f.df.recs) < PreviewLimit
                     THEN Len(f.df.recs) ELSE PreviewLimit
             vals == [i \in 1..n |-> RowValue(f.df, f.df.recs[i])]
         IN  Replied(Msg("preview", "", 0, vals, Failure("")))

cmd_rows(f) ==
    IF ~f.ok THEN Replied(ErrorMsg(f.err))
    ELSE IF Empty(f.df) THEN Replied(Plain("empty_rows"))
    ELSE LET n    == IF Len(f.df.recs) < PreviewLimit
                     THEN Len(f.df.recs) ELSE PreviewLimit
             vals == [i \in 1..n |-> RowValue(f.df, f.df.recs[i])]
         IN  Replied(Msg("preview", "", 0, vals, Failure("")))

Commands == {"portfolio", "analysis", "rows"}

Handle(cmd, f) ==
    CASE cmd = "portfolio" -> cmd_portfolio(f)
      [] cmd = "analysis"  -> cmd_analysis(f)
      [] OTHER             -> cmd_rows(f)

-----------------------------------------------------------------------------
(* Periodic Refresh Loop                                                     *)

LogRecord(kind, total, err) == [kind |-> kind, total |-> total, err |-> err]

NoLog == LogRecord("none", 0, "")

periodic_try_unguarded(src) ==
    LET f == TryFetch(src)
        a == analyze_portfolio(f.df)
    IN  IF ~f.ok THEN [log |-> NoLog, escaped |-> TRUE]
        ELSE IF ~a.ok THEN [log |-> NoLog, escaped |-> TRUE]
        ELSE [log |-> LogRecord("total", a.total, ""), escaped |-> FALSE]

\* the try/except of one iteration: the total is logged, or the exception
\* is logged and goes no further.
periodic_try(src) ==
    LET f == TryFetch(src)
        a == analyze_portfolio(f.df)
    IN  IF ~f.ok THEN [log |-> LogRecord("error", 0, f.err), escaped |-> FALSE]
        ELSE IF ~a.ok THEN [log |-> LogRecord("error", 0, a.err), escaped |-> FALSE]
        ELSE [log |-> LogRecord("total", a.total, ""), escaped |-> FALSE]

-----------------------------------------------------------------------------
(* The bot: handler invocations and the loop over a changing spreadsheet.    *)
(* A handler is split at the boundary of its fetch; the blocking calls of    *)
(* the code allow fewer interleavings than these steps do, never more.       *)

Handlers == {"h1", "h2"}

NoFetch == FetchError("none")

BindShared(h, f) == [g \in Handlers |-> f]

\* df is a local of the invocation: binding it touches no other invocation.
BindLocal(h, f) == [hfetch EXCEPT ![h] = f]

InitBot ==
    /\ source = Book(TableEmpty)
    /\ hpc = [h \in Handlers |-> "idle"]
    /\ hcmd = [h \in Handlers |-> "none"]
    /\ hfetch = [h \in Handlers |-> NoFetch]
    /\ hsnap = [h \in Handlers |-> Unreachable]
    /\ hfetches = [h \in Handlers |-> 0]
    /\ hsent = [h \in Handlers |-> <<>>]
    /\ hraised = [h \in Handlers |-> FALSE]
    /\ ppc = "fetching"
    /\ plog = NoLog
    /\ psnap = Unreachable

InitPipeIdle ==
    /\ rows = <<>>
    /\ stage = "idle"
    /\ df = EmptyDf
    /\ analysis = Failure("")
    /\ listing = Raised("")

\* the spreadsheet is edited, lost or restored by its owners.
SourceChange ==
    /\ \E s \in Sources : s # source /\ source' = s
    /\ UNCHANGED <<hpc, hcmd, hfetch, hsnap, hfetches, hsent, hraised,
                   ppc, plog, psnap>>
    /\ UNCHANGED pipeVars

\* a command arrives and the handler runs its try block.
HandlerFetch(h, cmd) ==
    /\ hpc[h] \in {"idle", "done"}
    /\ hpc' = [hpc EXCEPT ![h] = "fetched"]
    /\ hcmd' = [hcmd EXCEPT ![h] = cmd]
    /\ hfetch' = BindLocal(h, TryFetch(source))
    /\ hsnap' = [hsnap EXCEPT ![h] = source]
    /\ hfetches' = [hfetches EXCEPT ![h] = 1]
    /\ hsent' = [hsent EXCEPT ![h] = <<>>]
    /\ hraised' = [hraised EXCEPT ![h] = FALSE]
    /\ UNCHANGED <<source, ppc, plog, psnap>>
    /\ UNCHANGED pipeVars

\* the rest of the handler: the reply is built from the local frame and sent.
HandlerReply(h) ==
    /\ hpc[h] = "fetched"
    /\ LET out == Handle(hcmd[h], hfetch[h])
       IN  /\ hsent' = [hsent EXCEPT ![h] = out.sent]
           /\ hraised' = [hraised EXCEPT ![h] = out.raised]
    /\ hpc' = [hpc EXCEPT ![h] = "done"]
    /\ UNCHANGED <<source, hcmd, hfetch, hsnap, hfetches, ppc, plog, psnap>>
    /\ UNCHANGED pipeVars

\* the outcome of the loop body, tabulated per state of the source.
CycleOutcome == [s \in Sources |-> periodic_try(s)]

\* one iteration of the loop body up to the sleep.
PeriodicCycle ==
    /\ ppc = "fetching"
    /\ LET r == CycleOutcome[source]
       IN  /\ plog' = r.log
           /\ ppc' = IF r.escaped THEN "dead" ELSE "waiting"
    /\ psnap' = source
    /\ UNCHANGED <<source, hpc, hcmd, hfetch, hsnap, hfetches, hsent, hraised>>
    /\ UNCHANGED pipeVars

\* asyncio.sleep(60 * 30) returns.
PeriodicWake ==
    /\ ppc = "waiting"
    /\ ppc' = "fetching"
    /\ UNCHANGED <<source, hpc, hcmd, hfetch, hsnap, hfetches, hsent, hraised,
                   plog, psnap>>
    /\ UNCHANGED pipeVars

Init == InitBot /\ InitPipeIdle

Next ==
    \/ SourceChange
    \/ \E h \in Handlers, cmd \in Commands : HandlerFetch(h, cmd)
    \/ \E h \in Handlers : HandlerReply(h)
    \/ PeriodicCycle
    \/ PeriodicWake

Spec == Init /\ [][Next]_vars

\* the loop on its own over a changing spreadsheet.  The event loop runs a
\* task that is ready: the loop body once the sleep has ended, and the end of
\* the sleep once the interval has passed.
LoopNext == SourceChange \/ PeriodicCycle \/ PeriodicWake

LoopSpec ==
    Init /\ [][LoopNext]_vars /\ WF_vars(PeriodicCycle) /\ WF_vars(PeriodicWake)

-----------------------------------------------------------------------------
(* One run of the pipeline over every table of at most MaxRows rows.         *)

InitPipe ==
    /\ rows \in RawTables
    /\ stage = "raw"
    /\ df = EmptyDf
    /\ analysis = Failure("")
    /\ listing = Raised("")

Normalize ==
    /\ stage = "raw"
    /\ df' = normalize(rows)
    /\ stage' = "normalized"
    /\ UNCHANGED <<rows, analysis, listing>>
    /\ UNCHANGED botVars

Analyze ==
    /\ stage = "normalized"
    /\ analysis' = analyze_portfolio(df)
    /\ stage' = "analyzed"
    /\ UNCHANGED <<rows, df, listing>>
    /\ UNCHANGED botVars

List ==
    /\ stage = "analyzed"
    /\ listing' = cmd_portfolio(Fetched(df))
    /\ stage' = "listed"
    /\ UNCHANGED <<rows, df, analysis>>
    /\ UNCHANGED botVars

PipeInit == InitBot /\ InitPipe

PipeNext == Normalize \/ Analyze \/ List

PipeSpec == PipeInit /\ [][PipeNext]_vars

-----------------------------------------------------------------------------
(* Properties                                                                *)

RECURSIVE SumMap(_)
SumMap(f) ==
    IF DOMAIN f = {} THEN 0
    ELSE LET key == CHOOSE x \in DOMAIN f : TRUE
         IN  f[key] + SumMap([x \in DOMAIN f \ {key} |-> f[x]])

Aggregated == stage \in {"analyzed", "listed"}

NumericCols == {"qty", "avg_price"}

\* C1: periodic_task is always fetching or waiting, every step out of
\* fetching goes to waiting whether or not the cycle failed, every fetching
\* is followed by waiting and every waiting by another fetching.
C1_LoopNeverStops ==
    /\ [](ppc \in {"fetching", "waiting"})
    /\ [][ppc = "fetching" /\ ppc' # ppc => ppc' = "waiting"]_vars
    /\ (ppc = "fetching") ~> (ppc = "waiting")
    /\ (ppc = "waiting") ~> (ppc = "fetching")

\* a cycle has failed, and the loop is fetching again.
C1_Witness == ppc = "fetching" /\ plog.kind = "error"

\* C2: a handler whose fetch failed makes one fetch attempt, raises nothing,
\* sends nothing before its reply and exactly the error message as its reply.
C2_FetchFailureReported ==
    \A h \in Handlers :
        (hpc[h] # "idle" /\ ~hfetch[h].ok) =>
            /\ hfetches[h] = 1
            /\ ~hraised[h]
            /\ hpc[h] = "fetched" => hsent[h] = <<>>
            /\ hpc[h] = "done" => hsent[h] = <<ErrorMsg(hfetch[h].err)>>

\* two invocations of different commands have both ended on a failed fetch.
C2_Witness ==
    /\ hpc["h1"] = "done" /\ ~hfetch["h1"].ok /\ hcmd["h1"] = "analysis"
    /\ hpc["h2"] = "done" /\ ~hfetch["h2"].ok /\ hcmd["h2"] # "analysis"

\* C3: after normalisation every qty and avg_price is a number, and it is 0
\* wherever the raw cell was text or absent.
C3_NormalizationTotality ==
    stage # "raw" =>
        \A i \in 1..Len(df.recs) : \A c \in NumericCols :
            /\ df.recs[i][c].k = "num"
            /\ rows[i][c].k # "num" => df.recs[i][c] = Num(0)

\* C4: analyze_portfolio returns a summary for every normalised frame, and
\* the analysis handler ends with a reply.
C4_AggregationNeverFails ==
    Aggregated => analysis.ok /\ ~cmd_analysis(Fetched(df)).raised

\* C5: for a non-empty record set the total is the sum of the account
\* groups and the sum of the type groups.
C5_SumConservation ==
    (Aggregated /\ analysis.ok /\ Len(rows) > 0) =>
        /\ analysis.total = SumMap(analysis.by_account)
        /\ analysis.total = SumMap(analysis.by_type)

PctIs(p, v, total) ==
    /\ p.den # 0
    /\ IF total = 0 THEN p.num = 0 ELSE p.num * total = 100 * v * p.den

\* C6: analyze_portfolio never fails on a division by zero; in a summary
\* every percentage is 0 when the total is 0 and 100 * group / total
\* otherwise.
C6_ZeroTotalSafety ==
    Aggregated =>
        /\ analysis.err # "ZeroDivisionError"
        /\ analysis.ok =>
            /\ DOMAIN analysis.by_account_pct = DOMAIN analysis.by_account
            /\ DOMAIN analysis.by_type_pct = DOMAIN analysis.by_type
            /\ \A key \in DOMAIN analysis.by_account_pct :
                   PctIs(analysis.by_account_pct[key],
                         analysis.by_account[key], analysis.total)
            /\ \A key \in DOMAIN analysis.by_type_pct :
                   PctIs(analysis.by_type_pct[key],
                         analysis.by_type[key], analysis.total)

\* a non-empty record set whose groups are not zero and cancel to a zero
\* total has been aggregated.
C6_Witness ==
    /\ Aggregated /\ analysis.ok /\ Len(rows) > 0 /\ analysis.total = 0
    /\ \E key \in DOMAIN analysis.by_account : analysis.by_account[key] # 0
    /\ \E key \in DOMAIN analysis.by_type_pct : TRUE

EmptyText(cmd) ==
    CASE cmd = "portfolio" -> "empty_listing"
      [] cmd = "analysis"  -> "empty_or_zero"
      [] OTHER             -> "empty_rows"

\* C7: a handler whose fetch succeeded with zero records replies with the
\* fixed empty text of its command and raises nothing; the source error
\* message is sent only by a handler whose fetch failed.
C7_EmptyIsNotAnError ==
    \A h \in Handlers :
        hpc[h] = "done" =>
            /\ (hfetch[h].ok /\ Empty(hfetch[h].df)) =>
                   /\ ~hraised[h]
                   /\ hsent[h] = <<Plain(EmptyText(hcmd[h]))>>
            /\ (\E i \in 1..Len(hsent[h]) : hsent[h][i].kind = "source_error")
                   => ~hfetch[h].ok

\* two invocations of different commands have both answered an empty,
\* successfully fetched source.
C7_Witness ==
    /\ hpc["h1"] = "done" /\ hfetch["h1"].ok /\ Empty(hfetch["h1"].df)
    /\ hcmd["h1"] = "rows"
    /\ hpc["h2"] = "done" /\ hfetch["h2"].ok /\ Empty(hfetch["h2"].df)
    /\ hcmd["h2"] # "rows"

\* C8: after normalisation no qty and no avg_price is a negative number.
C8_NonNegative ==
    stage # "raw" =>
        \A i \in 1..Len(df.recs) : \A c \in NumericCols :
            df.recs[i][c].k = "num" => df.recs[i][c].n >= 0

\* C9: whatever the interleaving, the frame an invocation holds, the
\* messages it sends and the record the loop logs are those its own fetch
\* of the source determines.
C9_RepliesDependOnOwnFetch ==
    /\ \A h \in Handlers :
           /\ hpc[h] # "idle" => hfetch[h] = TryFetch(hsnap[h])
           /\ hpc[h] = "done" =>
                  LET out == Handle(hcmd[h], TryFetch(hsnap[h]))
                  IN  hsent[h] = out.sent /\ hraised[h] = out.raised
    /\ plog.kind # "none" => plog = periodic_try(psnap).log

\* one invocation has replied and another is between its fetch and its
\* reply, the two and the loop having read three different sources.
C9_Witness ==
    /\ hpc["h1"] = "done" /\ hpc["h2"] = "fetched"
    /\ hsnap["h1"] # hsnap["h2"]
    /\ plog.kind # "none" /\ psnap # hsnap["h1"] /\ psnap # hsnap["h2"]
    /\ hfetch["h1"].ok /\ hfetch["h2"].ok

\* C10: for every non-empty record set the listing's trailing total and the
\* total of analyze_portfolio both exist and are equal, and the analysis
\* handler shows that same total.
C10_TotalsAgree ==
    (stage = "listed" /\ Len(rows) > 0) =>
        /\ analysis.ok
        /\ Len(listing.sent) = 1
        /\ listing.sent[1].kind = "listing"
        /\ listing.sent[1].total = analysis.total
        /\ LET out == cmd_analysis(Fetched(df))
           IN  (Len(out.sent) = 1 /\ out.sent[1].kind = "summary") =>
                   out.sent[1].total = listing.sent[1].total

\* where analyze_portfolio does return a summary, its total is the total of
\* the listing.
TotalsAgreeWhereAggregated ==
    (stage = "listed" /\ Len(rows) > 0 /\ analysis.ok) =>
        listing.sent[1].total = analysis.total

====
